---------------------------- MODULE Spec2Model ----------------------------
(***************************************************************************)
(* Model of flyingpigeon's distribution-dissimilarity library              *)
(* (flyingpigeon/dist_diff.py), of the two Dissimilarity.calculate         *)
(* dispatchers built on it (flyingpigeon/ocgisDissimilarity.py and         *)
(* flyingpigeon/processes/wps_spatial_analog.py) and of the WPS process    *)
(* distribution_similarity (processes/wps_distribution_similarity.py).     *)
(*                                                                         *)
(* Specifications.  Spec: one call of a function of dist_diff, the result  *)
(* of a metric other than kldiv kept as the record of its operands.        *)
(* SpecValue: one call of seuclidean, nearest_neighbor or friedman_rafsky  *)
(* on small samples, the returned float computed.  SpecCalc: calculate of  *)
(* either dispatcher.  SpecAnyOrder: calculate with the items of its loop  *)
(* taken in another order.  SpecDS: execute of distribution_similarity.    *)
(* SpecQuery: one call of kldiv or nearest_neighbor statement by statement, *)
(* with the indexes it builds and the queries it issues.  SpecSession: a   *)
(* few such calls one after the other.                                     *)
(* The variables of the parts a specification does not run are None.       *)
(*                                                                         *)
(* Representation.  A numpy array is a record: [ndim |-> 1, e] holds the   *)
(* elements of a 1-D array, [ndim |-> 2, v] the rows of a 2-D array (and   *)
(* [ndim |-> 0, s] a scalar).  Sample values                               *)
(* are integers; distances are kept squared (integers), which orders them  *)
(* as the Euclidean distance does.  A float that the code obtains through  *)
(* log, sqrt or a division is kept as a record of the exact integers it is *)
(* computed from.  The outcome of a call is a record: kind "return" with   *)
(* the value, or kind "raise" with the exception and the raising line.     *)
(***************************************************************************)
EXTENDS Integers, Sequences, FiniteSets, TLC

VARIABLES
    fn,         \* library call: the function of dist_diff being called
    x, y, k,    \* library call: its arguments
    pc,         \* library call: "call", "normalized", "return" or "raise"
    xn, yn,     \* library call: the operands as check_sample_shape returned them
    out,        \* library call: the outcome, once the call has ended
    impl,       \* calculate: the class run, "ocgis" (ocgisDissimilarity.py) or
                \*   "wps" (processes/wps_spatial_analog.py)
    algo,       \* calculate: the argument algo
    reference,  \* calculate: per variable name, the values of the reference field
    field,      \* calculate: self.field, per variable name a (time, row, col) array
    cpc,        \* calculate: "start", "setup", "loop", "finish", "done" or "raised"
    metric,     \* calculate: the name of the function bound to `metric`, or "unbound"
    ref,        \* calculate: the (n, d) reference array
    fill,       \* calculate: the output array, one cell per grid position
    order,      \* calculate: the items of the loop's iterator, in the order it
                \*   yields them
    itr,        \* calculate: how many items of the loop's iterator are consumed
    pcomp,      \* calculate: the loop's local `pc`, the compressed candidate of
                \*   the last iteration
    cread,      \* calculate: whether values of the candidate variables were read
    vc,         \* calculate: the variables added to self.vc
    err,        \* calculate: the exception that ended it
    dpc,        \* DSProcess.execute: "start", "read", "loaded", "set", "done"
                \*   or "raised"
    req_algo,   \* DSProcess.execute: the request's input algo, or "absent"
    vec_p,      \* DSProcess.execute: the numbers in the JSON file of input vec_p
    vec_q,      \* DSProcess.execute: the numbers in the JSON file of input vec_q
    self_algo,  \* DSProcess.execute: self.algo once the arguments are read
    p_list,     \* DSProcess.execute: the local p, the list json.load returned
    q_list,     \* DSProcess.execute: the local q
    output,     \* DSProcess.execute: the value of self.output, None while unset
    status,     \* DSProcess.execute: the percentage last given to self.status.set
    derr,       \* DSProcess.execute: the exception that ended it
    built,      \* stepwise call: the indexes constructed so far, in order, each
                \*   with the name it is bound to and the points it holds
    queries,    \* stepwise call: the index queries issued so far, in order, each
                \*   with its index, its points, its size and what it returned
    D_list,     \* stepwise call: kldiv's list D, empty before the first call binds it
    kdone,      \* stepwise call: how many items of ka the loop of line 271 took
    std,        \* stepwise call: what standardize returned, None before line 131
    hist        \* stepwise call: the calls that ended before the current one,
                \*   each with its arguments and its outcome

libvars == <<fn, x, y, k, pc, xn, yn, out>>

calcvars == <<impl, algo, reference, field, cpc, metric, ref, fill, order, itr,
              pcomp, cread, vc, err>>

dsvars == <<dpc, req_algo, vec_p, vec_q, self_algo, p_list, q_list, output, status, derr>>

stepvars == <<built, queries, D_list, kdone, std, hist>>

vars == <<fn, x, y, k, pc, xn, yn, out,
          impl, algo, reference, field, cpc, metric, ref, fill, order, itr,
          pcomp, cread, vc, err,
          dpc, req_algo, vec_p, vec_q, self_algo, p_list, q_list, output, status, derr,
          built, queries, D_list, kdone, std, hist>>

---------------------------------------------------------------------------
(* Bounds of the model.                                                    *)

MaxN == 6

MaxK == 3

NTime == 6

NCols == 1

---------------------------------------------------------------------------
(* Floats that are not numbers.                                            *)

\* np.nan as a result value
NaN == [nan |-> TRUE]

\* the distance scipy's query reports for a neighbour that does not exist
inf == 0 - 1

None == [none |-> TRUE]

---------------------------------------------------------------------------
(* numpy                                                                   *)

RECURSIVE SumSeq(_)
SumSeq(s) == IF s = <<>> THEN 0 ELSE Head(s) + SumSeq(Tail(s))

RECURSIVE MaxSeq(_)
MaxSeq(s) == IF Len(s) = 1 THEN s[1]
             ELSE LET m == MaxSeq(Tail(s)) IN IF s[1] > m THEN s[1] ELSE m

\* x.shape of a 2-D array
shape(a) == <<Len(a.v), IF Len(a.v) = 0 THEN 0 ELSE Len(a.v[1])>>

\* np.atleast_2d: a 1-D array of length n becomes the single row (1, n)
atleast_2d(a) == IF a.ndim = 1 THEN [ndim |-> 2, v |-> <<a.e>>] ELSE a

\* x.T of a 2-D array
T(a) ==
    [ndim |-> 2,
     v |-> [j \in 1..shape(a)[2] |-> [i \in 1..shape(a)[1] |-> a.v[i][j]]]]

\* np.iterable(k): k is a scalar [ndim |-> 0, s] or a sequence [ndim |-> 1, e]
iterable(kk) == kk.ndim > 0

\* np.atleast_1d(k)
atleast_1d(kk) == IF kk.ndim = 0 THEN <<kk.s>> ELSE kk.e

\* a[idx] with Python's 0-based index, negative counting from the end
PyIndex(s, idx) == IF idx >= 0 THEN s[idx + 1] ELSE s[Len(s) + idx + 1]

---------------------------------------------------------------------------
(* Outcomes                                                                *)

Return(type, val) == [kind |-> "return", type |-> type, val |-> val]

Raise(exc, line) == [kind |-> "raise", exc |-> exc, line |-> line]

---------------------------------------------------------------------------
(* dist_diff.check_sample_shape                                            *)

\* flip transposing whatever the shape
flip_always(a) == T(a)

\* flip without the transposition
flip_kept(a) == a

\* lines 79-82: "If array is 1D, flip it": any array with a single row is flipped
flip(a) == IF shape(a)[1] = 1 THEN T(a) ELSE a

\* check_sample_shape without the assertion of line 88
check_sample_shape_unchecked(xx, yy) ==
    Return("pair", [x |-> flip(atleast_2d(xx)), y |-> flip(atleast_2d(yy))])

check_sample_shape(xx, yy) ==
    LET x2 == flip(atleast_2d(xx))
        y2 == flip(atleast_2d(yy))
    IN  IF shape(x2)[2] = shape(y2)[2]
        THEN Return("pair", [x |-> x2, y |-> y2])
        ELSE Raise("AssertionError", 88)

---------------------------------------------------------------------------
(* scipy.spatial.cKDTree                                                   *)

\* squared Euclidean distance of two points
SqDist(a, b) == SumSeq([j \in 1..Len(a) |-> (a[j] - b[j]) * (a[j] - b[j])])

\* KDTree(x): the index holds the rows of x
KDTree(a) == a.v

\* the points of the tree ordered by distance to p, ties by position
Nearest(tree, p) ==
    LET n == Len(tree)
        before(i, j) == \/ SqDist(tree[i], p) < SqDist(tree[j], p)
                        \/ SqDist(tree[i], p) = SqDist(tree[j], p) /\ i < j
        rank(i) == Cardinality({j \in 1..n : before(j, i)}) + 1
    IN  [r \in 1..n |-> CHOOSE i \in 1..n : rank(i) = r]

\* tree.query(pts, k=K, eps=0, p=2): per point, the K nearest neighbours in
\* ascending distance; a neighbour that does not exist has distance inf and
\* index n
query(tree, pts, K) ==
    [q \in 1..Len(pts) |->
        LET ord == Nearest(tree, pts[q])
        IN  [d |-> [c \in 1..K |-> IF c <= Len(tree)
                                   THEN SqDist(tree[ord[c]], pts[q]) ELSE inf],
             i |-> [c \in 1..K |-> IF c <= Len(tree)
                                   THEN ord[c] - 1 ELSE Len(tree)]]]

---------------------------------------------------------------------------
(* dist_diff.kldiv                                                         *)

\* the size gate with "and" for "or"
NotEnoughData_both(nx, ny) == nx < 5 /\ ny < 5

\* the size gate testing the reference only
NotEnoughData_x(nx, ny) == nx < 5

\* line 255
NotEnoughData(nx, ny) == nx < 5 \/ ny < 5

\* line 252
DimensionOk(dx) == dx < 10

\* the query sized for the first k requested
QuerySize_first(ka) == ka[1] + 1

\* line 264: K = max(ka) + 1
QuerySize(ka) == MaxSeq(ka) + 1

\* the estimate with the sign of the paper's Eq. 14 (and of the docstring's
\* formula, line 208): no minus before the sum
Estimate_paper(r, s, ki, dx, nx, ny) ==
    [sign |-> 1,
     logratio |-> [i \in 1..nx |-> <<PyIndex(r[i].d, ki), PyIndex(s[i].d, ki - 1)>>],
     times |-> dx, over |-> nx,
     logconst |-> <<ny, nx - 1>>]

\* the estimate computed from the points whose two distances are not zero
Estimate_masked(r, s, ki, dx, nx, ny) ==
    [sign |-> 0 - 1,
     logratio |-> SelectSeq([i \in 1..nx |-> <<PyIndex(r[i].d, ki), PyIndex(s[i].d, ki - 1)>>],
                            LAMBDA pr : pr[1] # 0 /\ pr[2] # 0),
     times |-> dx, over |-> nx,
     logconst |-> <<ny, nx - 1>>]

\* the estimate reading column ki - 1 of both query results: the self match of
\* the X query is not skipped
Estimate_noskip(r, s, ki, dx, nx, ny) ==
    [sign |-> 0 - 1,
     logratio |-> [i \in 1..nx |-> <<PyIndex(r[i].d, ki - 1), PyIndex(s[i].d, ki - 1)>>],
     times |-> dx, over |-> nx,
     logconst |-> <<ny, nx - 1>>]

\* line 273, one estimate:
\*   -sum_i log(r[i, ki] / s[i, ki-1]) * dx / nx + log(ny / (nx - 1.))
\* kept as the distances read (squared) and the integers of the formula
Estimate(r, s, ki, dx, nx, ny) ==
    [sign |-> 0 - 1,
     logratio |-> [i \in 1..nx |-> <<PyIndex(r[i].d, ki), PyIndex(s[i].d, ki - 1)>>],
     times |-> dx, over |-> nx,
     logconst |-> <<ny, nx - 1>>]

\* np.log(r / s) of line 273 by class, for distances that are 0, positive or
\* inf: 0/0 and inf/inf are nan, a quotient 0 has the log -inf, a quotient inf
\* the log +inf
LogClass(pr) ==
    CASE pr[1] = 0 /\ pr[2] = 0 -> "nan"
      [] pr[1] = inf /\ pr[2] = inf -> "nan"
      [] pr[1] = 0 \/ pr[2] = inf -> "-inf"
      [] pr[2] = 0 \/ pr[1] = inf -> "+inf"
      [] OTHER -> "finite"

\* the float of line 273 by class: the sum of the logs is nan with a nan term
\* or with terms of both infinities; the minus turns its infinity around, and
\* the finite factor and constant (nx >= 5) keep it
FloatClass(est) ==
    LET cs == {LogClass(est.logratio[i]) : i \in 1..Len(est.logratio)}
    IN  IF "nan" \in cs \/ ("+inf" \in cs /\ "-inf" \in cs) THEN "nan"
        ELSE IF "+inf" \in cs THEN IF est.sign < 0 THEN "-inf" ELSE "+inf"
        ELSE IF "-inf" \in cs THEN IF est.sign < 0 THEN "+inf" ELSE "-inf"
        ELSE "finite"

\* lines 248-278, after check_sample_shape returned (xa, ya); ka, mk are lines 243-244
kldiv_body(xa, ya, kk) ==
    LET mk == iterable(kk)
        ka == atleast_1d(kk)
        nx == shape(xa)[1]
        dx == shape(xa)[2]
        ny == shape(ya)[1]
    IN  IF ~DimensionOk(dx) THEN Raise("AssertionError", 252)
        ELSE IF NotEnoughData(nx, ny) THEN Return("float", NaN)
        ELSE IF ka = <<>> THEN Raise("ValueError", 264)
        ELSE LET K == QuerySize(ka)
                 r == query(KDTree(xa), xa.v, K)
                 s == query(KDTree(ya), xa.v, K)
                 D == [t \in 1..Len(ka) |-> Estimate(r, s, ka[t], dx, nx, ny)]
             IN  IF mk THEN Return("list", D) ELSE Return("float", D[1])

kldiv(xx, yy, kk) ==
    LET c == check_sample_shape(xx, yy)
    IN  IF c.kind = "raise" THEN c ELSE kldiv_body(c.val.x, c.val.y, kk)

---------------------------------------------------------------------------
(* dist_diff: the other metrics.  Each normalizes with check_sample_shape  *)
(* first; the bodies below are what follows that line.  Their floats are   *)
(* kept as the exact integers they are computed from: the pooled sample,   *)
(* the sample sizes, and per feature the sums and variances as quotients.  *)

\* column j of a 2-D array
Column(a, j) == [i \in 1..shape(a)[1] |-> a.v[i][j]]

\* x.mean(0): per feature the exact quotient <<sum, n>>
mean0(a) == [j \in 1..shape(a)[2] |-> <<SumSeq(Column(a, j)), shape(a)[1]>>]

\* x.var(0, ddof=1): per feature the exact quotient
\*   <<n * sum(x^2) - sum(x)^2, n * (n - 1)>>   (0/0, numpy's nan, when n = 1)
var0(a) ==
    [j \in 1..shape(a)[2] |->
        LET c == Column(a, j)
            n == shape(a)[1]
        IN  <<n * SumSeq([i \in 1..n |-> c[i] * c[i]]) - SumSeq(c) * SumSeq(c),
              n * (n - 1)>>]

\* np.vstack([x, y])
vstack(a, b) == [ndim |-> 2, v |-> a.v \o b.v]

\* lines 115-118
seuclidean_body(xa, ya) ==
    Return("float", [f |-> "scipy.spatial.distance.seuclidean",
                     u |-> mean0(xa), v |-> mean0(ya), V |-> var0(xa)])

\* lines 130-142: the fraction `same.mean()` of the pooled, standardized sample
nearest_neighbor_body(xa, ya) ==
    Return("float", [f |-> "nearest_neighbor",
                     s4 |-> [j \in 1..shape(xa)[2] |-> <<var0(xa)[j], var0(ya)[j]>>],
                     xy |-> vstack(xa, ya).v, nx |-> shape(xa)[1]])

\* scipy's pdist(a, 'seuclidean', V=v): the distances of the pairs (i, j),
\* i < j, of the n rows of a in row order, pair (i, j) at the 1-based place
\* (i - 1)(2n - i)/2 + (j - i); a distance is kept as its squared differences
\* per feature
pdist(a) ==
    LET n == Len(a)
        place(i, j) == ((i - 1) * (2 * n - i)) \div 2 + (j - i)
        pairs == {pr \in (1..n) \X (1..n) : pr[1] < pr[2]}
    IN  [c \in 1..((n * (n - 1)) \div 2) |->
            LET pr == CHOOSE pr \in pairs : place(pr[1], pr[2]) = c
            IN  [j \in 1..Len(a[1]) |-> (a[pr[1]][j] - a[pr[2]][j]) * (a[pr[1]][j] - a[pr[2]][j])]]

\* scipy's squareform of the condensed distances of n points of d features
squareform(cond, n, d) ==
    LET place(i, j) == ((i - 1) * (2 * n - i)) \div 2 + (j - i)
    IN  [i \in 1..n |-> [j \in 1..n |->
            IF i = j THEN [f \in 1..d |-> 0]
            ELSE IF i < j THEN cond[place(i, j)] ELSE cond[place(j, i)]]]

\* the block of the distances within x
cross_block_within(dxy, nx) ==
    [c \in 1..(nx * nx) |-> dxy[((c - 1) \div nx) + 1][((c - 1) % nx) + 1]]

\* line 168: dxy[nx:, :nx], the rows from nx on and the first nx columns, as
\* the sequence of its entries
cross_block(dxy, nx) ==
    LET ny == Len(dxy) - nx
    IN  [c \in 1..(ny * nx) |-> dxy[nx + ((c - 1) \div nx) + 1][((c - 1) % nx) + 1]]

\* lines 155-170: phix + phiy + phixy.  Each term is kept as its sign, the
\* distances whose logs it sums and the two integers it divides by; v2 holds,
\* per feature, the two variances whose roots multiply to V
zech_aslan_body(xa, ya) ==
    LET nx == shape(xa)[1]
        ny == shape(ya)[1]
        xy == vstack(xa, ya).v
    IN  Return("float", [f |-> "zech_aslan",
                         v2 |-> [j \in 1..shape(xa)[2] |-> <<var0(xa)[j], var0(ya)[j]>>],
                         xy |-> xy,
                         nx |-> nx, ny |-> ny,
                         phix |-> [sign |-> 0 - 1, logs |-> pdist(xa.v),
                                   over |-> <<nx, nx - 1>>],
                         phiy |-> [sign |-> 0 - 1, logs |-> pdist(ya.v),
                                   over |-> <<ny, ny - 1>>],
                         phixy |-> [sign |-> 1,
                                    logs |-> cross_block(squareform(pdist(xy), nx + ny,
                                                                    shape(xa)[2]), nx),
                                    over |-> <<nx, ny>>]])

\* lines 186-200: 1. - (1. + diff) / n
friedman_rafsky_body(xa, ya) ==
    Return("float", [f |-> "friedman_rafsky",
                     xy |-> vstack(xa, ya).v,
                     nx |-> shape(xa)[1], n |-> shape(xa)[1] + shape(ya)[1]])

\* lines 60-63: SED is a function of the module, not one of its metrics
SED(xx, yy) == Return("array", [f |-> "SED", x |-> xx, y |-> yy])

\* the names of the five metrics
Metrics == {"seuclidean", "nearest_neighbor", "zech_aslan", "friedman_rafsky", "kldiv"}

\* what follows `x, y = check_sample_shape(x, y)` in the function named f
body(f, xa, ya, kk) ==
    CASE f = "check_sample_shape" -> Return("pair", [x |-> xa, y |-> ya])
      [] f = "seuclidean" -> seuclidean_body(xa, ya)
      [] f = "nearest_neighbor" -> nearest_neighbor_body(xa, ya)
      [] f = "zech_aslan" -> zech_aslan_body(xa, ya)
      [] f = "friedman_rafsky" -> friedman_rafsky_body(xa, ya)
      [] f = "kldiv" -> kldiv_body(xa, ya, kk)

\* dd.<f>(reference, candidate) as the dispatcher calls it: k keeps its default, 1
DefaultK == [ndim |-> 0, s |-> 1]

apply(f, xx, yy) ==
    IF f = "SED" THEN SED(xx, yy)
    ELSE LET c == check_sample_shape(xx, yy)
         IN  IF c.kind = "raise" THEN c ELSE body(f, c.val.x, c.val.y, DefaultK)

---------------------------------------------------------------------------
(* dist_diff: seuclidean, nearest_neighbor and friedman_rafsky evaluated.  *)
(* The bodies above keep a call as the record of its operands; the         *)
(* operators below compute the float it returns, exactly: a quotient is a  *)
(* reduced pair of integers, a square root is kept as its radicand, and    *)
(* distances are compared through their squares.  Where the source leaves  *)
(* the result to the tie-breaking of a library, every result is given.     *)

RECURSIVE GCD(_, _)
GCD(a, b) == IF b = 0 THEN a ELSE GCD(b, a % b)

\* the quotient p / q (p >= 0, q > 0) in lowest terms
Frac(p, q) == <<p \div GCD(p, q), q \div GCD(p, q)>>

AddFrac(a, b) == Frac(a[1] * b[2] + b[1] * a[2], a[2] * b[2])

RECURSIVE SumFrac(_)
SumFrac(fs) == IF fs = <<>> THEN <<0, 1>> ELSE AddFrac(Head(fs), SumFrac(Tail(fs)))

\* float +inf as a result value
PlusInf == [inf |-> TRUE]

Sign(a) == IF a > 0 THEN 1 ELSE IF a < 0 THEN 0 - 1 ELSE 0

\* lines 115-118: scipy's seuclidean(u, v, V) = sqrt(sum((u - v)**2 / V)); a
\* feature with V = 0 gives inf (or nan, 0/0), one row in x gives V = nan
seuclidean_value(xa, ya) ==
    LET n == shape(xa)[1]
        m == shape(ya)[1]
        u == mean0(xa)
        v == mean0(ya)
        V == var0(xa)
        \* u[j] - v[j] = a(j) / (n * m)
        a(j) == u[j][1] * m - v[j][1] * n
        class(j) == IF V[j][2] = 0 THEN "nan"
                    ELSE IF V[j][1] = 0 THEN IF a(j) = 0 THEN "nan" ELSE "inf"
                    ELSE "num"
        term(j) == Frac(a(j) * a(j) * V[j][2], n * n * m * m * V[j][1])
        J == 1..shape(xa)[2]
    IN  Return("float",
               IF \E j \in J : class(j) = "nan" THEN NaN
               ELSE IF \E j \in J : class(j) = "inf" THEN PlusInf
               ELSE [sqrt |-> SumFrac([j \in J |-> term(j)])])

\* standardize, lines 99-100: s = sqrt(x.std(0, ddof=1) * y.std(0, ddof=1)).
\* s[j]**4 is var_x[j] * var_y[j]; here its numerator, the denominator
\* nx (nx - 1) ny (ny - 1) being the same for every feature
scale4(xa, ya) == [j \in 1..shape(xa)[2] |-> var0(xa)[j][1] * var0(ya)[j][1]]

\* whether s is a finite positive number in every feature
FiniteScale(xa, ya) ==
    /\ shape(xa)[1] >= 2 /\ shape(ya)[1] >= 2
    /\ \A j \in 1..shape(xa)[2] : scale4(xa, ya)[j] > 0

\* the sign of sum_j c[j] / sqrt(w[j]) for weights w[j] > 0 of one or two
\* distinct values p < q: with A and B the sums of the c[j] of weight p and q,
\* it is the sign of A / sqrt(p) + B / sqrt(q)
SignStd(c, w) ==
    LET W == {w[j] : j \in DOMAIN w}
        p == CHOOSE a \in W : \A b \in W : a <= b
        q == CHOOSE a \in W : \A b \in W : a >= b
        A == SumSeq([j \in DOMAIN w |-> IF w[j] = p THEN c[j] ELSE 0])
        B == SumSeq([j \in DOMAIN w |-> IF w[j] # p THEN c[j] ELSE 0])
    IN  CASE Cardinality(W) = 1 -> Sign(A)
          [] Cardinality(W) = 2 ->
                IF B = 0 \/ Sign(A) = Sign(B) THEN Sign(A)
                ELSE IF A = 0 THEN Sign(B)
                ELSE Sign(A) * Sign(A * A * q - B * B * p)

\* per feature, the squared difference of two points
SqDiffs(a, b) == [j \in 1..Len(a) |-> (a[j] - b[j]) * (a[j] - b[j])]

\* the sign of dist(a, b) - dist(a2, b2) between points divided by s
StdCompare(a, b, a2, b2, w) ==
    SignStd([j \in 1..Len(a) |-> SqDiffs(a, b)[j] - SqDiffs(a2, b2)[j]], w)

\* tree.query(xy, k=2) on the standardized pooled sample: per point the
\* 0-based indices of its two nearest points, ties by position
query2_std(pts, w) ==
    [q \in 1..Len(pts) |->
        LET n == Len(pts)
            before(i, j) == \/ StdCompare(pts[i], pts[q], pts[j], pts[q], w) < 0
                            \/ StdCompare(pts[i], pts[q], pts[j], pts[q], w) = 0 /\ i < j
            rank(i) == Cardinality({j \in 1..n : before(j, i)}) + 1
        IN  [c \in 1..2 |-> (CHOOSE i \in 1..n : rank(i) = c) - 1]]

\* line 140: same = ~np.logical_xor(*(ind < nx).T)
same(ind, nx) == [q \in 1..Len(ind) |-> (ind[q][1] < nx) = (ind[q][2] < nx)]

\* lines 130-142: same.mean(), as the quotient count / n.  When s is not a
\* finite positive number the pooled coordinates are inf or nan, and the
\* index either refuses them or orders them in a way of its own
nearest_neighbor_values(xa, ya) ==
    LET nx == shape(xa)[1]
        xy == vstack(xa, ya).v
        n == Len(xy)
    IN  IF FiniteScale(xa, ya)
        THEN LET sm == same(query2_std(xy, scale4(xa, ya)), nx)
             IN  {Return("float", [num |-> Cardinality({q \in 1..n : sm[q]}), den |-> n])}
        ELSE {Raise("ValueError", 136)}
             \cup {Return("float", [num |-> c, den |-> n]) : c \in 0..n}

\* line 195: an edge of length 0 is no entry of MST.nonzero()
nonzero(w2) == w2 # 0

\* lines 193-198: `diff` for every minimum spanning tree of the pooled
\* sample: the tree is grown from the points in `inn` by a shortest edge
\* leaving them, every choice among equal lengths taken; dcount counts the
\* edges so far that MST.nonzero() reports and that join a point of x
\* (index <= nx) to a point of y
RECURSIVE mst_diffs(_, _, _, _)
mst_diffs(pts, nx, inn, dcount) ==
    IF inn = 1..Len(pts) THEN {dcount}
    ELSE LET E == {e \in inn \X ((1..Len(pts)) \ inn) : TRUE}
             len(e) == SqDist(pts[e[1]], pts[e[2]])
             shortest == {e \in E : \A e2 \in E : len(e) <= len(e2)}
         IN  UNION {mst_diffs(pts, nx, inn \cup {e[2]},
                              dcount + IF nonzero(len(e)) /\ ((e[1] <= nx) # (e[2] <= nx))
                                       THEN 1 ELSE 0)
                      : e \in shortest}

\* lines 194-195: the number of rows of `edges` for every minimum spanning
\* tree of the pooled sample, grown as in mst_diffs: the tree's edges that
\* MST.nonzero() reports
RECURSIVE mst_edges(_, _, _)
mst_edges(pts, inn, ecount) ==
    IF inn = 1..Len(pts) THEN {ecount}
    ELSE LET E == {e \in inn \X ((1..Len(pts)) \ inn) : TRUE}
             len(e) == SqDist(pts[e[1]], pts[e[2]])
             shortest == {e \in E : \A e2 \in E : len(e) <= len(e2)}
         IN  UNION {mst_edges(pts, inn \cup {e[2]},
                              ecount + IF nonzero(len(e)) THEN 1 ELSE 0)
                      : e \in shortest}

\* the value without the 1 added to diff: 1. - diff / n
friedman_rafsky_values_nolead(xa, ya) ==
    LET nx == shape(xa)[1]
        xy == vstack(xa, ya).v
        n == Len(xy)
    IN  {Return("float", [num |-> n - diff, den |-> n]) : diff \in mst_diffs(xy, nx, {1}, 0)}

\* lines 186-200: 1. - (1. + diff) / n, as the quotient (n - 1 - diff) / n
friedman_rafsky_values(xa, ya) ==
    LET nx == shape(xa)[1]
        xy == vstack(xa, ya).v
        n == Len(xy)
    IN  {Return("float", [num |-> n - 1 - diff, den |-> n]) : diff \in mst_diffs(xy, nx, {1}, 0)}

\* the functions evaluated
Evaluated == {"seuclidean", "nearest_neighbor", "friedman_rafsky"}

\* the outcomes of what follows `x, y = check_sample_shape(x, y)` in f
values(f, xa, ya) ==
    CASE f = "seuclidean" -> {seuclidean_value(xa, ya)}
      [] f = "nearest_neighbor" -> nearest_neighbor_values(xa, ya)
      [] f = "friedman_rafsky" -> friedman_rafsky_values(xa, ya)

\* the outcomes of the call f(xx, yy)
outcomes(f, xx, yy) ==
    LET c == check_sample_shape(xx, yy)
    IN  IF c.kind = "raise" THEN {c} ELSE values(f, c.val.x, c.val.y)

---------------------------------------------------------------------------
(* The inputs of a library call.                                           *)

\* the feature counts tried: one and a few, and both sides of kldiv's limit
Dims == {1, 9, 10}

Seeds == {1, 2}

\* sample values: seed 1 gives distinct points, seed 2 repeats points
gx(i, j, s) == IF s = 1 THEN i * i + j ELSE (i % 3) * 2 + (j % 2)

gy(i, j) == 2 * i * i - i + j

Vec(n, g(_, _)) == [ndim |-> 1, e |-> [i \in 1..n |-> g(i, 1)]]

Mat(n, d, g(_, _)) == [ndim |-> 2, v |-> [i \in 1..n |-> [j \in 1..d |-> g(i, j)]]]

XInputs ==
    UNION {
        LET g(i, j) == gx(i, j, s)
        IN  {Vec(n, g) : n \in 1..MaxN} \cup {Mat(n, d, g) : n \in 1..MaxN, d \in Dims}
        : s \in Seeds}

YInputs == {Vec(n, gy) : n \in 1..MaxN} \cup {Mat(n, d, gy) : n \in 1..MaxN, d \in Dims}

\* k: a positive integer, or a sequence of one or two of them, or [1, 2, 3]
KInputs ==
    {[ndim |-> 0, s |-> a] : a \in 1..MaxK}
    \cup {[ndim |-> 1, e |-> <<a>>] : a \in 1..MaxK}
    \cup {[ndim |-> 1, e |-> <<a, b>>] : a \in 1..MaxK, b \in 1..MaxK}
    \cup {[ndim |-> 1, e |-> <<1, 2, 3>>]}

Functions == Metrics \cup {"check_sample_shape"}

\* small samples for the evaluated metrics: the vectors of one to three of the
\* values 0, 1, 5 (with repeated and with constant values), and a few (n, 2)
\* arrays: two whose features differ in scale, three of mean (1, 2) of which
\* one is a single row, and one of three rows
SmallVecs ==
    {[ndim |-> 1, e |-> e] : e \in UNION {[1..n -> {0, 1, 5}] : n \in 1..3}}

SmallMats ==
    {[ndim |-> 2, v |-> v] :
        v \in {<< <<0, 0>>, <<10, 1>> >>,
               << <<0, 2>>, <<10, 3>> >>,
               << <<1, 2>> >>,
               << <<1, 2>>, <<1, 2>> >>,
               << <<0, 1>>, <<2, 3>> >>,
               << <<0, 0>>, <<2, 1>>, <<1, 5>> >>}}

SmallSamples == SmallVecs \cup SmallMats

---------------------------------------------------------------------------
(* A library call, in two steps: the normalization every function starts   *)
(* with, then the rest of the function.                                    *)

Init ==
    /\ fn \in Functions
    /\ x \in XInputs
    /\ y \in YInputs
    /\ k \in IF fn = "kldiv" THEN KInputs ELSE {None}
    /\ pc = "call"
    /\ xn = None
    /\ yn = None
    /\ out = None
    /\ impl = None /\ algo = None /\ reference = None /\ field = None
    /\ cpc = None /\ metric = None /\ ref = None /\ fill = None
    /\ itr = None /\ cread = None /\ vc = None /\ err = None
    /\ order = None /\ pcomp = None
    /\ dpc = None /\ req_algo = None /\ vec_p = None /\ vec_q = None
    /\ self_algo = None /\ p_list = None /\ q_list = None /\ output = None
    /\ status = None /\ derr = None
    /\ built = None /\ queries = None /\ D_list = None /\ kdone = None /\ std = None /\ hist = None

\* `x, y = check_sample_shape(x, y)` (or the whole of check_sample_shape)
Normalize ==
    /\ pc = "call"
    /\ LET c == check_sample_shape(x, y)
       IN  IF c.kind = "raise"
           THEN /\ pc' = "raise"
                /\ out' = c
                /\ UNCHANGED <<xn, yn>>
           ELSE /\ pc' = "normalized"
                /\ xn' = c.val.x
                /\ yn' = c.val.y
                /\ UNCHANGED out
    /\ UNCHANGED <<fn, x, y, k>>
    /\ UNCHANGED <<calcvars, dsvars, stepvars>>

\* the rest of the function, on the normalized operands
Compute ==
    /\ pc = "normalized"
    /\ out' = body(fn, xn, yn, k)
    /\ pc' = out'.kind
    /\ UNCHANGED <<fn, x, y, k, xn, yn>>
    /\ UNCHANGED <<calcvars, dsvars, stepvars>>

Next == Normalize \/ Compute

Spec == Init /\ [][Next]_vars

---------------------------------------------------------------------------
(* A call of an evaluated metric on small samples: the normalization, then *)
(* the rest of the function with the float it returns.                     *)

ValueInit ==
    /\ fn \in Evaluated
    /\ x \in SmallSamples
    /\ y \in SmallSamples
    /\ k = None
    /\ pc = "call"
    /\ xn = None
    /\ yn = None
    /\ out = None
    /\ impl = None /\ algo = None /\ reference = None /\ field = None
    /\ cpc = None /\ metric = None /\ ref = None /\ fill = None
    /\ itr = None /\ cread = None /\ vc = None /\ err = None
    /\ order = None /\ pcomp = None
    /\ dpc = None /\ req_algo = None /\ vec_p = None /\ vec_q = None
    /\ self_algo = None /\ p_list = None /\ q_list = None /\ output = None
    /\ status = None /\ derr = None
    /\ built = None /\ queries = None /\ D_list = None /\ kdone = None /\ std = None /\ hist = None

\* the rest of the function, evaluated
Evaluate ==
    /\ pc = "normalized"
    /\ fn \in Evaluated
    /\ out' \in values(fn, xn, yn)
    /\ pc' = out'.kind
    /\ UNCHANGED <<fn, x, y, k, xn, yn>>
    /\ UNCHANGED <<calcvars, dsvars, stepvars>>

ValueNext == Normalize \/ Evaluate

SpecValue == ValueInit /\ [][ValueNext]_vars

---------------------------------------------------------------------------
(* kldiv and nearest_neighbor, the two functions that build a cKDTree,     *)
(* statement by statement.  `built` and `queries` record the indexes the   *)
(* call constructed and the queries it issued; a name of the function      *)
(* (xtree, ytree, tree) is bound to the last index built under it.  The    *)
(* locals D, std and the loop's position keep the value a statement gave   *)
(* them until another statement assigns them.                              *)

\* standardize dividing in place (x /= s; y /= s)
standardize_inplace(xa, ya) ==
    LET s4 == scale4(xa, ya)
        xs == [v |-> xa.v, s4 |-> s4]
        ys == [v |-> ya.v, s4 |-> s4]
    IN  [x |-> xs, y |-> ys, args |-> <<xs, ys>>]

\* lines 99-100: standardize returns the new arrays x/s and y/s, each kept as
\* the rows of its operand with s**4 per feature; `args` is its two operands
\* after the call: no statement stores into them
standardize(xa, ya) ==
    LET s4 == scale4(xa, ya)
    IN  [x |-> [v |-> xa.v, s4 |-> s4], y |-> [v |-> ya.v, s4 |-> s4],
         args |-> <<xa, ya>>]

\* tree.query(xy, k=2) of line 137 on standardized points: per point the
\* indices query2_std gives and the distances to them, each kept as the
\* squared differences per feature
query_std(data) ==
    LET ind == query2_std(data.v, data.s4)
    IN  [q \in 1..Len(data.v) |->
            [d |-> [c \in 1..2 |-> SqDiffs(data.v[ind[q][c] + 1], data.v[q])],
             i |-> ind[q]]]

\* the points held by the index bound to `name`
Index(name) ==
    LET js == {j \in 1..Len(built) : built[j].name = name}
    IN  built[CHOOSE j \in js : \A j2 \in js : j2 <= j].data

\* what the last query of the index bound to `name` returned (the names
\* r, indx of line 265, s, indy of line 266, r, ind of line 137)
Answer(name) ==
    LET js == {j \in 1..Len(queries) : queries[j].tree = name}
    IN  queries[CHOOSE j \in js : \A j2 \in js : j2 <= j].res

\* a list that starts with what the name held before
new_list_kept(old) == old

\* line 270: D = []
new_list(old) == <<>>

\* the inputs of a stepwise call: the (n, d) arrays of XInputs and YInputs;
\* for k the scalars up to the largest sample size and a few sequences, in
\* ascending and in descending order
StepX == {a \in XInputs : a.ndim = 2}

StepY == {a \in YInputs : a.ndim = 2}

StepK ==
    {[ndim |-> 0, s |-> a] : a \in 1..MaxN}
    \cup {[ndim |-> 1, e |-> e] : e \in {<<1>>, <<2, 1>>, <<MaxK, 1>>, <<1, 2, 3>>}}

StepFunctions == {"kldiv", "nearest_neighbor"}

StepStart ==
    /\ pc = "call"
    /\ xn = None
    /\ yn = None
    /\ out = None
    /\ built = <<>>
    /\ queries = <<>>
    /\ D_list = <<>>
    /\ kdone = None
    /\ std = None
    /\ hist = <<>>
    /\ impl = None /\ algo = None /\ reference = None /\ field = None
    /\ cpc = None /\ metric = None /\ ref = None /\ fill = None
    /\ itr = None /\ cread = None /\ vc = None /\ err = None
    /\ order = None /\ pcomp = None
    /\ dpc = None /\ req_algo = None /\ vec_p = None /\ vec_q = None
    /\ self_algo = None /\ p_list = None /\ q_list = None /\ output = None
    /\ status = None /\ derr = None

StepInit ==
    /\ fn \in StepFunctions
    /\ x \in StepX
    /\ y \in StepY
    /\ k \in IF fn = "kldiv" THEN StepK ELSE {None}
    /\ StepStart

\* line 246 (kldiv), line 129 (nearest_neighbor)
step_normalize ==
    /\ pc = "call"
    /\ LET c == check_sample_shape(x, y)
       IN  IF c.kind = "raise"
           THEN /\ pc' = "raise"
                /\ out' = c
                /\ UNCHANGED <<xn, yn>>
           ELSE /\ pc' = "normalized"
                /\ xn' = c.val.x
                /\ yn' = c.val.y
                /\ UNCHANGED out
    /\ UNCHANGED <<fn, x, y, k, stepvars>>
    /\ UNCHANGED <<calcvars, dsvars>>

\* lines 248-256: the assertion on dx, then the size gate
kl_gate ==
    /\ pc = "normalized" /\ fn = "kldiv"
    /\ IF ~DimensionOk(shape(xn)[2])
       THEN out' = Raise("AssertionError", 252) /\ pc' = "raise"
       ELSE IF NotEnoughData(shape(xn)[1], shape(yn)[1])
       THEN out' = Return("float", NaN) /\ pc' = "return"
       ELSE pc' = "gated" /\ UNCHANGED out
    /\ UNCHANGED <<fn, x, y, k, xn, yn, stepvars>>
    /\ UNCHANGED <<calcvars, dsvars>>

\* line 259: xtree = KDTree(x)
kl_xtree ==
    /\ pc = "gated"
    /\ built' = Append(built, [name |-> "xtree", data |-> KDTree(xn)])
    /\ pc' = "xtree"
    /\ UNCHANGED <<fn, x, y, k, xn, yn, out, queries, D_list, kdone, std, hist>>
    /\ UNCHANGED <<calcvars, dsvars>>

\* line 260: ytree = KDTree(y)
kl_ytree ==
    /\ pc = "xtree"
    /\ built' = Append(built, [name |-> "ytree", data |-> KDTree(yn)])
    /\ pc' = "ytree"
    /\ UNCHANGED <<fn, x, y, k, xn, yn, out, queries, D_list, kdone, std, hist>>
    /\ UNCHANGED <<calcvars, dsvars>>

\* lines 264-265: K = max(ka) + 1; r, indx = xtree.query(x, k=K)
kl_query_r ==
    /\ pc = "ytree"
    /\ IF atleast_1d(k) = <<>>
       THEN /\ out' = Raise("ValueError", 264) /\ pc' = "raise"
            /\ UNCHANGED queries
       ELSE /\ LET K == QuerySize(atleast_1d(k))
               IN  queries' = Append(queries,
                       [tree |-> "xtree", pts |-> xn.v, K |-> K,
                        res |-> query(Index("xtree"), xn.v, K)])
            /\ pc' = "r"
            /\ UNCHANGED out
    /\ UNCHANGED <<fn, x, y, k, xn, yn, built, D_list, kdone, std, hist>>
    /\ UNCHANGED <<calcvars, dsvars>>

\* line 266: s, indy = ytree.query(x, k=K)
kl_query_s ==
    /\ pc = "r" /\ fn = "kldiv"
    /\ LET K == QuerySize(atleast_1d(k))
       IN  queries' = Append(queries,
               [tree |-> "ytree", pts |-> xn.v, K |-> K,
                res |-> query(Index("ytree"), xn.v, K)])
    /\ pc' = "s"
    /\ UNCHANGED <<fn, x, y, k, xn, yn, out, built, D_list, kdone, std, hist>>
    /\ UNCHANGED <<calcvars, dsvars>>

\* lines 270-271: D = []; the loop over ka starts
kl_D ==
    /\ pc = "s"
    /\ D_list' = new_list(D_list)
    /\ kdone' = 0
    /\ pc' = "loop"
    /\ UNCHANGED <<fn, x, y, k, xn, yn, out, built, queries, std, hist>>
    /\ UNCHANGED <<calcvars, dsvars>>

\* lines 271-273: one turn of the loop; r and s are what the two queries
\* returned
kl_loop ==
    /\ pc = "loop" /\ kdone < Len(atleast_1d(k))
    /\ D_list' = Append(D_list,
           Estimate(Answer("xtree"), Answer("ytree"), atleast_1d(k)[kdone + 1],
                    shape(xn)[2], shape(xn)[1], shape(yn)[1]))
    /\ kdone' = kdone + 1
    /\ UNCHANGED <<fn, x, y, k, pc, xn, yn, out, built, queries, std, hist>>
    /\ UNCHANGED <<calcvars, dsvars>>

\* lines 275-278
kl_return ==
    /\ pc = "loop" /\ kdone = Len(atleast_1d(k))
    /\ out' = IF iterable(k) THEN Return("list", D_list) ELSE Return("float", D_list[1])
    /\ pc' = "return"
    /\ UNCHANGED <<fn, x, y, k, xn, yn, stepvars>>
    /\ UNCHANGED <<calcvars, dsvars>>

\* line 131: x, y = standardize(x, y)
nn_standardize ==
    /\ pc = "normalized" /\ fn = "nearest_neighbor"
    /\ LET st == standardize(xn, yn)
       IN  /\ std' = [x |-> st.x, y |-> st.y]
           /\ xn' = st.args[1]
           /\ yn' = st.args[2]
    /\ pc' = "standardized"
    /\ UNCHANGED <<fn, x, y, k, out, built, queries, D_list, kdone, hist>>
    /\ UNCHANGED <<calcvars, dsvars>>

\* lines 135-136: xy = np.vstack([x, y]); tree = KDTree(xy).  When s is not
\* a finite positive number the call ends as nearest_neighbor_values says
nn_tree ==
    /\ pc = "standardized"
    /\ IF FiniteScale(xn, yn)
       THEN /\ built' = Append(built,
                   [name |-> "tree",
                    data |-> [v |-> std.x.v \o std.y.v, s4 |-> std.x.s4]])
            /\ pc' = "tree"
            /\ UNCHANGED out
       ELSE /\ out' \in nearest_neighbor_values(xn, yn)
            /\ pc' = out'.kind
            /\ UNCHANGED built
    /\ UNCHANGED <<fn, x, y, k, xn, yn, queries, D_list, kdone, std, hist>>
    /\ UNCHANGED <<calcvars, dsvars>>

\* line 137: r, ind = tree.query(xy, k=2)
nn_query ==
    /\ pc = "tree"
    /\ queries' = Append(queries,
           [tree |-> "tree", pts |-> Index("tree").v, K |-> 2,
            res |-> query_std(Index("tree"))])
    /\ pc' = "r"
    /\ UNCHANGED <<fn, x, y, k, xn, yn, out, built, D_list, kdone, std, hist>>
    /\ UNCHANGED <<calcvars, dsvars>>

\* lines 140-142: same = ~np.logical_xor(*(ind < nx).T); return same.mean()
nn_return ==
    /\ pc = "r" /\ fn = "nearest_neighbor"
    /\ LET ind == [q \in 1..Len(Answer("tree")) |-> Answer("tree")[q].i]
           sm == same(ind, shape(xn)[1])
       IN  out' = Return("float", [num |-> Cardinality({q \in 1..Len(sm) : sm[q]}),
                                   den |-> Len(sm)])
    /\ pc' = "return"
    /\ UNCHANGED <<fn, x, y, k, xn, yn, stepvars>>
    /\ UNCHANGED <<calcvars, dsvars>>

StepNext ==
    \/ step_normalize
    \/ kl_gate \/ kl_xtree \/ kl_ytree \/ kl_query_r \/ kl_query_s
    \/ kl_D \/ kl_loop \/ kl_return
    \/ nn_standardize \/ nn_tree \/ nn_query \/ nn_return

SpecQuery == StepInit /\ [][StepNext]_vars

---------------------------------------------------------------------------
(* A session: calls of kldiv and nearest_neighbor one after the other in   *)
(* one interpreter.  A call starts with the names of the function holding  *)
(* whatever the calls before left in them.                                 *)

\* the number of calls of a session
NCalls == 2

\* the arguments of the calls of a session
SessX == {a \in StepX : shape(a) = <<5, 1>>}

SessY == {a \in StepY : shape(a) \in {<<2, 1>>, <<5, 1>>}}

SessK == {[ndim |-> 0, s |-> 1], [ndim |-> 1, e |-> <<2, 1>>]}

SessInit ==
    /\ fn \in StepFunctions
    /\ x \in SessX
    /\ y \in SessY
    /\ k \in IF fn = "kldiv" THEN SessK ELSE {None}
    /\ StepStart

\* the call has ended and the caller makes the next one
Again ==
    /\ pc \in {"return", "raise"}
    /\ Len(hist) + 1 < NCalls
    /\ hist' = Append(hist, [fn |-> fn, x |-> x, y |-> y, k |-> k, out |-> out])
    /\ fn' \in StepFunctions
    /\ x' \in SessX
    /\ y' \in SessY
    /\ k' \in IF fn' = "kldiv" THEN SessK ELSE {None}
    /\ pc' = "call"
    /\ UNCHANGED <<xn, yn, out, built, queries, D_list, kdone, std>>
    /\ UNCHANGED <<calcvars, dsvars>>

SessNext == StepNext \/ Again

SpecSession == SessInit /\ [][SessNext]_vars

---------------------------------------------------------------------------
(* Dissimilarity.calculate: the data it works on.                          *)

\* np.nan among the values of a field (the other floats are integers >= 0)
nan == 0 - 2

\* the variable names passed as `candidate` (test_wps_spatial_analog.py)
candidate == <<"meantemp", "totalpr">>

Rows == {0, 1}

\* the grid positions (ir, ic), 0-based, in lexicographic order
PosSeq ==
    [q \in 1..(Cardinality(Rows) * NCols) |-> <<(q - 1) \div NCols, (q - 1) % NCols>>]

Grid == {PosSeq[q] : q \in 1..Len(PosSeq)}

\* the candidate value of variable j at time t and position pos
fv(j, t, pos) == t * t + j + 3 * pos[1] + 5 * pos[2]

\* the invalid entries of one grid cell, by pattern: 1 none; 2 the first time of
\* the first variable is NaN; 3 the second and the last time of the second
\* variable are infinite; 4 both
Patterns == 1..4

Invalid(pat, j, t) ==
    CASE j = 1 /\ t = 1 /\ pat \in {2, 4} -> nan
      [] j = 2 /\ t \in {2, NTime} /\ pat \in {3, 4} -> inf
      [] OTHER -> 0

MkField(pats) ==
    [c \in {candidate[j] : j \in 1..Len(candidate)} |->
        LET j == CHOOSE jj \in 1..Len(candidate) : candidate[jj] = c
        IN  [t \in 1..NTime |->
                [pos \in Grid |-> IF Invalid(pats[pos], j, t) # 0
                                  THEN Invalid(pats[pos], j, t)
                                  ELSE fv(j, t, pos)]]]

Fields == {MkField(pats) : pats \in [Grid -> Patterns]}

\* the reference field: one position, NTime - 1 times
MkReference ==
    [c \in {candidate[j] : j \in 1..Len(candidate)} |->
        LET j == CHOOSE jj \in 1..Len(candidate) : candidate[jj] = c
        IN  [t \in 1..(NTime - 1) |-> 2 * t + j * t + (t % 2)]]

\* the names tried as `algo`: the metrics, a function of dist_diff that is no
\* metric, and the name the docstring lists that dist_diff does not define
Algos == Metrics \cup {"SED", "kolmogorov_smirnov"}

\* the fields whose grid positions carry the four patterns in rotation
RotFields ==
    {MkField([pos \in Grid |->
                 (((CHOOSE q \in 1..Len(PosSeq) : PosSeq[q] = pos) + sh) % 4) + 1])
        : sh \in 0..3}

Reverse(sq) == [i \in 1..Len(sq) |-> sq[Len(sq) + 1 - i]]

Rotate(sq, r) == [i \in 1..Len(sq) |-> sq[((i - 1 + r) % Len(sq)) + 1]]

\* the processing orders tried for the items sq: every permutation of up to
\* four items; of more, the rotations of sq and of its reversal
Orders(sq) ==
    IF Len(sq) <= 4
    THEN {[i \in 1..Len(sq) |-> sq[pm[i]]] : pm \in Permutations(1..Len(sq))}
    ELSE {Rotate(sq, r) : r \in 0..(Len(sq) - 1)}
         \cup {Rotate(Reverse(sq), r) : r \in 0..(Len(sq) - 1)}

---------------------------------------------------------------------------
(* Dissimilarity.calculate: helpers.                                       *)

\* dist_diff.__all__ (dist_diff.py line 50)
dist_diff_all == {"kldiv"}

\* the callables reachable as attributes of the module dist_diff
dist_diff_attrs == Metrics \cup {"SED", "check_sample_shape", "standardize", "KDTree"}

\* __all__ of the module `dissimilarity` that ocgisDissimilarity.py imports as dd
dissimilarity_all == Metrics

\* the attributes of the module `dissimilarity` the dispatcher may look up
dissimilarity_attrs == Metrics

\* the class attribute _potential_algo = dd.__all__, read as a directory listing
wps_potential_algo_dir == dist_diff_attrs

\* wps_spatial_analog.py line 37
wps_potential_algo == dist_diff_all

\* ocgisDissimilarity.py line 22
ocgis_potential_algo == dissimilarity_all

\* np.array([reference[c].get_value() for c in candidate]).squeeze().T
MkRef(refd) ==
    LET d == Len(candidate)
        n == Len(refd[candidate[1]])
    IN  IF d = 1 THEN [ndim |-> 1, e |-> refd[candidate[1]]]
        ELSE IF n = 1 THEN [ndim |-> 1, e |-> [j \in 1..d |-> refd[candidate[j]][1]]]
        ELSE [ndim |-> 2, v |-> [t \in 1..n |-> [j \in 1..d |-> refd[candidate[j]][t]]]]

\* np.ma.masked_invalid: the entries that are NaN or infinite are masked
IsInvalid(val) == val = nan \/ val = inf

\* the (time, variable) array of one position: cv[:, :, ir, ic].T, or
\* np.array([self.field[c][dind].get_value() for c in candidate]).squeeze().T
Slice(fld, pos) == [t \in 1..NTime |-> [j \in 1..Len(candidate) |-> fld[candidate[j]][t][pos]]]

\* compress that drops a row only when all its entries are masked
compress_any(fld, pos) ==
    [ndim |-> 2,
     v |-> SelectSeq(Slice(fld, pos),
                     LAMBDA row : \E j \in 1..Len(row) : ~IsInvalid(row[j]))]

\* pc = p.compress(~p.mask.any(1), 0): the rows without a masked entry, in order
compress(fld, pos) ==
    [ndim |-> 2,
     v |-> SelectSeq(Slice(fld, pos),
                     LAMBDA row : \A j \in 1..Len(row) : ~IsInvalid(row[j]))]

\* pc.shape[0]
nrows(a) == Len(a.v)

\* the 0.0 of np.zeros
zero == [float |-> 0]

\* np.ma.masked_invalid(fill): the data with the mask of its NaN cells
masked_invalid(f) == [data |-> f, mask |-> {pos \in DOMAIN f : f[pos] = NaN}]

\* an assignment that writes the whole array, arr[:] = val
setitem_all(f, pos, val) == [q \in DOMAIN f |-> val]

\* fill.data[ind] = val (ocgisDissimilarity.py lines 83, 85), dist[ir, ic] = val
\* (wps_spatial_analog.py line 74): one cell is written
setitem(f, pos, val) == [f EXCEPT ![pos] = val]

\* the items of iter_array(cdata[0]) in wps_spatial_analog.py: every index
\* (it, ir, ic) of the (time, row, col) array, in C order
WpsItems ==
    [q \in 1..(NTime * Len(PosSeq)) |->
        <<(q - 1) \div Len(PosSeq), PosSeq[((q - 1) % Len(PosSeq)) + 1]>>]

\* the items iter_array yields, in its order: the positions of the fill
\* variable (ocgis), the indices of the candidate array (wps)
iter_array(im) == IF im = "ocgis" THEN PosSeq ELSE WpsItems

\* the grid position of an item of the iterator
ItemPos(im, item) == IF im = "ocgis" THEN item ELSE item[2]

\* ocgisDissimilarity.py lines 70-85, the iteration at ind when the metric
\* returns: the fill array it leaves
ocgis_cell(fld, rf, m, f, ind) ==
    LET p == compress(fld, ind)
    IN  IF nrows(p) > 5
        THEN setitem(f, ind, apply(m, rf, p).val)
        ELSE setitem(f, ind, NaN)

\* wps_spatial_analog.py lines 67-77, the iteration at (it, ir, ic): the array
\* it leaves; the assignment of line 77 follows the `continue` of line 75
\* inside the `if` and never runs
wps_cell(fld, f, pos) ==
    LET p == compress(fld, pos)
    IN  IF nrows(p) < 5 THEN setitem(f, pos, NaN) ELSE f

---------------------------------------------------------------------------
(* Dissimilarity.calculate of ocgisDissimilarity.py                        *)

\* the state calculate starts from, but for the field and the iterator's order
CalcStart ==
    /\ impl \in {"ocgis", "wps"}
    /\ algo \in Algos
    /\ reference = MkReference
    /\ cpc = "start"
    /\ metric = "unbound"
    /\ ref = None
    /\ fill = None
    /\ itr = 0
    /\ pcomp = None
    /\ cread = FALSE
    /\ vc = <<>>
    /\ err = None
    /\ fn = None /\ x = None /\ y = None /\ k = None
    /\ pc = None /\ xn = None /\ yn = None /\ out = None
    /\ dpc = None /\ req_algo = None /\ vec_p = None /\ vec_q = None
    /\ self_algo = None /\ p_list = None /\ q_list = None /\ output = None
    /\ status = None /\ derr = None
    /\ built = None /\ queries = None /\ D_list = None /\ kdone = None /\ std = None /\ hist = None

CalcInit ==
    /\ CalcStart
    /\ field \in Fields
    /\ order = iter_array(impl)

\* lines 39-42: the assertion on algo, then metric = getattr(dd, algo)
ocgis_lookup ==
    /\ impl = "ocgis" /\ cpc = "start"
    /\ IF algo \notin ocgis_potential_algo
       THEN cpc' = "raised" /\ err' = Raise("AssertionError", 39) /\ UNCHANGED metric
       ELSE IF algo \notin dissimilarity_attrs
       THEN cpc' = "raised" /\ err' = Raise("AttributeError", 42) /\ UNCHANGED metric
       ELSE cpc' = "setup" /\ metric' = algo /\ UNCHANGED err
    /\ UNCHANGED <<impl, algo, reference, field, ref, fill, order, itr, pcomp, cread, vc>>
    /\ UNCHANGED <<libvars, dsvars, stepvars>>

\* lines 45-67: the reference array, the fill variable and the iterator
ocgis_setup ==
    /\ impl = "ocgis" /\ cpc = "setup"
    /\ ref' = MkRef(reference)
    /\ IF ref'.ndim # 2
       THEN cpc' = "raised" /\ err' = Raise("AssertionError", 47) /\ UNCHANGED <<fill, itr>>
       ELSE /\ cpc' = "loop"
            /\ fill' = [pos \in Grid |-> None]
            /\ itr' = 0
            /\ UNCHANGED err
    /\ UNCHANGED <<impl, algo, reference, field, metric, order, pcomp, cread, vc>>
    /\ UNCHANGED <<libvars, dsvars, stepvars>>

\* lines 68-85: one iteration of `for ind in itr`
ocgis_iterate ==
    /\ impl = "ocgis" /\ cpc = "loop" /\ itr < Len(order)
    /\ LET ind == order[itr + 1]
           p == compress(field, ind)
       IN  /\ cread' = TRUE
           /\ pcomp' = p
           /\ IF nrows(p) > 5 /\ apply(metric, ref, p).kind = "raise"
              THEN /\ cpc' = "raised"
                   /\ err' = apply(metric, ref, p)
                   /\ UNCHANGED <<fill, itr>>
              ELSE /\ fill' = ocgis_cell(field, ref, metric, fill, ind)
                   /\ itr' = itr + 1
                   /\ UNCHANGED <<cpc, err>>
    /\ UNCHANGED <<impl, algo, reference, field, metric, ref, order, vc>>
    /\ UNCHANGED <<libvars, dsvars, stepvars>>

\* line 89, once the iterator is exhausted: self.vc.add_variable(fill)
ocgis_finish ==
    /\ impl = "ocgis" /\ cpc = "loop" /\ itr = Len(order)
    /\ vc' = Append(vc, [name |-> <<"dissimilarity_", algo>>, value |-> fill])
    /\ cpc' = "done"
    /\ UNCHANGED <<impl, algo, reference, field, metric, ref, fill, order, itr,
                   pcomp, cread, err>>
    /\ UNCHANGED <<libvars, dsvars, stepvars>>

---------------------------------------------------------------------------
(* Dissimilarity.calculate of processes/wps_spatial_analog.py              *)

\* lines 49-50: the assertion on algo, then metric = getattr(dd, algo)
wps_lookup ==
    /\ impl = "wps" /\ cpc = "start"
    /\ IF algo \notin wps_potential_algo
       THEN cpc' = "raised" /\ err' = Raise("AssertionError", 49) /\ UNCHANGED metric
       ELSE IF algo \notin dist_diff_attrs
       THEN cpc' = "raised" /\ err' = Raise("AttributeError", 50) /\ UNCHANGED metric
       ELSE cpc' = "setup" /\ metric' = algo /\ UNCHANGED err
    /\ UNCHANGED <<impl, algo, reference, field, ref, fill, order, itr, pcomp, cread, vc>>
    /\ UNCHANGED <<libvars, dsvars, stepvars>>

\* lines 52-65: the reference array, the candidate values, the output of zeros
wps_setup ==
    /\ impl = "wps" /\ cpc = "setup"
    /\ ref' = MkRef(reference)
    /\ cread' = TRUE
    /\ fill' = [pos \in Grid |-> zero]
    /\ itr' = 0
    /\ cpc' = "loop"
    /\ UNCHANGED <<impl, algo, reference, field, metric, order, pcomp, vc, err>>
    /\ UNCHANGED <<libvars, dsvars, stepvars>>

\* lines 66-77: one iteration of `for it, ir, ic in itr`
wps_iterate ==
    /\ impl = "wps" /\ cpc = "loop" /\ itr < Len(order)
    /\ LET pos == order[itr + 1][2]
       IN  /\ pcomp' = compress(field, pos)
           /\ fill' = wps_cell(field, fill, pos)
    /\ itr' = itr + 1
    /\ UNCHANGED <<impl, algo, reference, field, cpc, metric, ref, order, cread, vc, err>>
    /\ UNCHANGED <<libvars, dsvars, stepvars>>

\* lines 79-83, once the iterator is exhausted
wps_finish ==
    /\ impl = "wps" /\ cpc = "loop" /\ itr = Len(order)
    /\ vc' = Append(vc, [name |-> algo, value |-> masked_invalid(fill)])
    /\ cpc' = "done"
    /\ UNCHANGED <<impl, algo, reference, field, metric, ref, fill, order, itr,
                   pcomp, cread, err>>
    /\ UNCHANGED <<libvars, dsvars, stepvars>>

CalcNext ==
    \/ ocgis_lookup \/ ocgis_setup \/ ocgis_iterate \/ ocgis_finish
    \/ wps_lookup \/ wps_setup \/ wps_iterate \/ wps_finish

SpecCalc == CalcInit /\ [][CalcNext]_vars

\* calculate with its loop taking the items in another order than iter_array's
AnyOrderInit ==
    /\ CalcStart
    /\ field \in RotFields
    /\ order \in Orders(iter_array(impl))

SpecAnyOrder == AnyOrderInit /\ [][CalcNext]_vars

---------------------------------------------------------------------------
(* DSProcess.execute of processes/wps_distribution_similarity.py           *)

\* the default of the input algo (line 39)
algo_default == "kldiv"

\* the values of algo tried: none given, the metric, other names
ReqAlgos == {"absent", "kldiv", "nearest_neighbor", "kolmogorov_smirnov"}

\* the contents of the two JSON files: vectors of 1 to MaxN numbers
VecFiles == {ar.e : ar \in {a \in XInputs \cup YInputs : a.ndim = 1}}

\* json.load(f): the list of the numbers of the file
json_load(file) == file

\* the array numpy makes of a list of numbers (np.atleast_2d in kldiv)
asarray(list) == [ndim |-> 1, e |-> list]

\* the call with the operands exchanged
dd_kldiv_swapped(pp, qq) == kldiv(asarray(qq), asarray(pp), DefaultK)

\* line 103: dd.kldiv(p, q), k left to its default
dd_kldiv(pp, qq) == kldiv(asarray(pp), asarray(qq), DefaultK)

DSInit ==
    /\ dpc = "start"
    /\ req_algo \in ReqAlgos
    /\ vec_p \in VecFiles
    /\ vec_q \in VecFiles
    /\ self_algo = None
    /\ p_list = None
    /\ q_list = None
    /\ output = None
    /\ status = None
    /\ derr = None
    /\ fn = None /\ x = None /\ y = None /\ k = None
    /\ pc = None /\ xn = None /\ yn = None /\ out = None
    /\ impl = None /\ algo = None /\ reference = None /\ field = None
    /\ cpc = None /\ metric = None /\ ref = None /\ fill = None
    /\ itr = None /\ cread = None /\ vc = None /\ err = None
    /\ order = None /\ pcomp = None
    /\ built = None /\ queries = None /\ D_list = None /\ kdone = None /\ std = None /\ hist = None

\* lines 80-95: the arguments are read; an input that was not given has its
\* default
ds_read ==
    /\ dpc = "start"
    /\ self_algo' = IF req_algo = "absent" THEN algo_default ELSE req_algo
    /\ status' = 5
    /\ dpc' = "read"
    /\ UNCHANGED <<req_algo, vec_p, vec_q, p_list, q_list, output, derr>>
    /\ UNCHANGED <<libvars, calcvars, stepvars>>

\* lines 97-101 and 106-107: the test of the algorithm, then the two files
ds_load ==
    /\ dpc = "read"
    /\ IF self_algo = "kldiv"
       THEN /\ p_list' = json_load(vec_p)
            /\ q_list' = json_load(vec_q)
            /\ dpc' = "loaded"
            /\ UNCHANGED derr
       ELSE /\ dpc' = "raised"
            /\ derr' = Raise("ValueError", 107)
            /\ UNCHANGED <<p_list, q_list>>
    /\ UNCHANGED <<req_algo, vec_p, vec_q, self_algo, output, status>>
    /\ UNCHANGED <<libvars, calcvars, stepvars>>

\* lines 103-105: out = dd.kldiv(p, q); self.output.setValue(out)
ds_set ==
    /\ dpc = "loaded"
    /\ LET o == dd_kldiv(p_list, q_list)
       IN  IF o.kind = "raise"
           THEN dpc' = "raised" /\ derr' = o /\ UNCHANGED output
           ELSE dpc' = "set" /\ output' = o.val /\ UNCHANGED derr
    /\ UNCHANGED <<req_algo, vec_p, vec_q, self_algo, p_list, q_list, status>>
    /\ UNCHANGED <<libvars, calcvars, stepvars>>

\* line 109
ds_finish ==
    /\ dpc = "set"
    /\ status' = 100
    /\ dpc' = "done"
    /\ UNCHANGED <<req_algo, vec_p, vec_q, self_algo, p_list, q_list, output, derr>>
    /\ UNCHANGED <<libvars, calcvars, stepvars>>

DSNext == ds_read \/ ds_load \/ ds_set \/ ds_finish

SpecDS == DSInit /\ [][DSNext]_vars

---------------------------------------------------------------------------
(* Properties of the library calls (specification Spec).                   *)

Ended == pc \in {"return", "raise"}

\* the call went past check_sample_shape: xn, yn hold the normalized operands
PastNormalize == pc \in {"normalized", "return"} \/ (pc = "raise" /\ out.line # 88)

\* a float result that is NaN, or a list of results all NaN
IsNaNResult(o) ==
    /\ o.kind = "return"
    /\ \/ o.type = "float" /\ o.val = NaN
       \/ o.type = "list" /\ \A t \in 1..Len(o.val) : o.val[t] = NaN

\* C1 as stated: whenever the normalized x or y has fewer than 5 rows, kldiv
\* returns NaN and raises nothing, whatever the feature count d.
C1_AsStated ==
    (fn = "kldiv" /\ Ended /\ PastNormalize
        /\ (shape(xn)[1] < 5 \/ shape(yn)[1] < 5))
    => IsNaNResult(out)

\* C1 amended: whenever the normalized samples share a feature count d < 10 and
\* x or y has fewer than 5 rows, kldiv returns NaN and raises nothing; with
\* d >= 10 the assertion of line 252 fails first.
C1_SmallSampleNaN ==
    (fn = "kldiv" /\ Ended /\ PastNormalize
        /\ (shape(xn)[1] < 5 \/ shape(yn)[1] < 5))
    => IF shape(xn)[2] < 10
       THEN IsNaNResult(out)
       ELSE out = Raise("AssertionError", 252)

C1_Witness ==
    /\ fn = "kldiv" /\ pc = "return"
    /\ shape(xn)[1] = 4 /\ shape(yn)[1] = 6 /\ shape(xn)[2] = 9
    /\ out.val = NaN

\* the result of kldiv(x, y, ks) that C6 states: the results of the scalar
\* calls kldiv(x, y, ks[t]), in the order of ks
ScalarCalls(xx, yy, ks) == [t \in 1..Len(ks) |-> kldiv(xx, yy, [ndim |-> 0, s |-> ks[t]])]

\* C6 as stated: for every pair of samples and every sequence ks, kldiv(x, y, ks)
\* returns, in the order of ks, the values of the scalar calls kldiv(x, y, k).
C6_AsStated ==
    (fn = "kldiv" /\ Ended /\ iterable(k))
    => LET each == ScalarCalls(x, y, k.e)
       IN  IF \E t \in 1..Len(each) : each[t].kind = "raise"
           THEN \E t \in 1..Len(each) : out = each[t]
           ELSE out = Return("list", [t \in 1..Len(each) |-> each[t].val])

\* C7 as stated: a scalar k gives a single number, a sequence k of length L a
\* sequence of L estimates, whatever the sizes of the samples.
C7_AsStated ==
    (fn = "kldiv" /\ pc = "return")
    => IF iterable(k)
       THEN out.type = "list" /\ Len(out.val) = Len(k.e)
       ELSE out.type = "float"

\* C8 as stated: for samples X (n, d) and Y (m, d), kldiv fails with the
\* dimensionality error when d >= 10 and raises nothing when d < 10.
C8_AsStated ==
    (fn = "kldiv" /\ Ended /\ x.ndim = 2 /\ y.ndim = 2
        /\ shape(x)[2] = shape(y)[2])
    => IF shape(x)[2] >= 10
       THEN out = Raise("AssertionError", 252)
       ELSE out.kind = "return"

\* C9: every metric works on the operands as check_sample_shape normalized
\* them, and when their normalized feature counts differ the call ends in the
\* assertion error of check_sample_shape, with no value.
C9_NormalizeFirst ==
    fn \in Metrics =>
        /\ PastNormalize =>
              /\ xn = flip(atleast_2d(x))
              /\ yn = flip(atleast_2d(y))
              /\ shape(xn)[2] = shape(yn)[2]
        /\ (pc # "call" /\ shape(flip(atleast_2d(x)))[2] # shape(flip(atleast_2d(y)))[2])
              => pc = "raise" /\ out = Raise("AssertionError", 88)

C9_Witness ==
    /\ fn = "friedman_rafsky" /\ pc = "raise"
    /\ x.ndim = 2 /\ shape(x) = <<3, 9>> /\ y.ndim = 1

\* C10: a 1-D operand of length n comes back with shape (n, 1), its elements
\* in order one per row, and the rule is the same for x and y; two 1-D
\* operands always pass.
C10_ColumnShape ==
    /\ (x.ndim = 1 /\ y.ndim = 1) => pc # "raise"
    /\ (pc \in {"normalized", "return"} /\ x.ndim = 1)
          => xn = [ndim |-> 2, v |-> [i \in 1..Len(x.e) |-> <<x.e[i]>>]]
    /\ (pc \in {"normalized", "return"} /\ y.ndim = 1)
          => yn = [ndim |-> 2, v |-> [i \in 1..Len(y.e) |-> <<y.e[i]>>]]
    /\ (fn = "check_sample_shape" /\ pc = "return")
          => out = Return("pair", [x |-> xn, y |-> yn])

C10_Witness ==
    /\ fn = "check_sample_shape" /\ pc = "return"
    /\ x.ndim = 1 /\ Len(x.e) = 4 /\ y.ndim = 1 /\ Len(y.e) = 2
    /\ shape(out.val.x) = <<4, 1>> /\ shape(out.val.y) = <<2, 1>>

\* the squared distances from p to the points of pts, the one at index skip
\* left out (skip = 0: none)
OtherDists(pts, p, skip) == [i \in (1..Len(pts)) \ {skip} |-> SqDist(pts[i], p)]

\* the kth smallest of the values of f, counted with their multiplicity
KthSmallest(f, kth) ==
    CHOOSE v \in {f[i] : i \in DOMAIN f} :
        /\ Cardinality({i \in DOMAIN f : f[i] < v}) < kth
        /\ kth <= Cardinality({i \in DOMAIN f : f[i] <= v})

\* r_k(x_i): the distance from x_i to its kth nearest point of X other than x_i
r_k(i, kth) == KthSmallest(OtherDists(xn.v, xn.v[i], i), kth)

\* s_k(x_i): the distance from x_i to its kth nearest point of Y
s_k(i, kth) == KthSmallest(OtherDists(yn.v, xn.v[i], 0), kth)

\* -(d/n) sum_i log(r_k(x_i)/s_k(x_i)) + log(m/(n-1))
Formula(kth) ==
    [sign |-> 0 - 1,
     logratio |-> [i \in 1..shape(xn)[1] |-> <<r_k(i, kth), s_k(i, kth)>>],
     times |-> shape(xn)[2], over |-> shape(xn)[1],
     logconst |-> <<shape(yn)[1], shape(xn)[1] - 1>>]

Estimates(o) == IF o.type = "list" THEN o.val ELSE <<o.val>>

\* whether a distance the estimate for kth reads is zero
ZeroDistance(kth) ==
    \E i \in 1..shape(xn)[1] : r_k(i, kth) = 0 \/ s_k(i, kth) = 0

\* C18: with n >= 5, m >= 5 (d < 10), kldiv raises nothing when a distance it
\* reads is zero; the zero enters the log ratio as it is, and the estimate of
\* every k with such a distance is +inf, -inf or NaN.
C18_ZeroDistance ==
    (fn = "kldiv" /\ Ended /\ PastNormalize
        /\ shape(xn)[1] >= 5 /\ shape(yn)[1] >= 5 /\ shape(xn)[2] < 10)
    => /\ pc = "return"
       /\ \A t \in 1..Len(atleast_1d(k)) :
              ZeroDistance(atleast_1d(k)[t])
              => /\ \E i \in 1..Len(Estimates(out)[t].logratio) :
                        0 \in {Estimates(out)[t].logratio[i][1],
                               Estimates(out)[t].logratio[i][2]}
                 /\ FloatClass(Estimates(out)[t]) \in {"+inf", "-inf", "nan"}

C18_Witness ==
    /\ fn = "kldiv" /\ pc = "return" /\ k = [ndim |-> 0, s |-> 1]
    /\ shape(xn) = <<5, 1>> /\ shape(yn) = <<5, 1>>
    /\ xn.v[1] = xn.v[4]
    /\ r_k(1, 1) = 0
    /\ FloatClass(out.val) = "+inf"

\* how many entries of the sequence sq are val
CountIn(sq, val) == Cardinality({c \in 1..Len(sq) : sq[c] = val})

\* whether the sequence sq holds the values of f, each as often as f takes it
SameBag(sq, f) ==
    /\ Len(sq) = Cardinality(DOMAIN f)
    /\ \A e \in DOMAIN f : CountIn(sq, f[e]) = Cardinality({e2 \in DOMAIN f : f[e2] = f[e]})

\* the distance of every unordered pair of rows of a, each pair once
WithinPairs(a) ==
    [e \in {pr \in (1..Len(a)) \X (1..Len(a)) : pr[1] < pr[2]} |-> SqDiffs(a[e[1]], a[e[2]])]

\* the distance of every pair of a row of a and a row of b
CrossPairs(a, b) ==
    [e \in (1..Len(a)) \X (1..Len(b)) |-> SqDiffs(a[e[1]], b[e[2]])]

\* C26: zech_aslan returns phix + phiy + phixy; phix and phiy are minus the
\* sum of the log distance over each unordered pair within x and within y,
\* over nx (nx - 1) and ny (ny - 1); phixy is the sum of the log distance over
\* exactly the nx ny pairs of a point of x and a point of y, over nx ny.
C26_Terms ==
    (fn = "zech_aslan" /\ pc = "return") =>
        LET nx == shape(xn)[1]
            ny == shape(yn)[1]
        IN  /\ out.val.phix.sign < 0 /\ out.val.phix.over = <<nx, nx - 1>>
            /\ SameBag(out.val.phix.logs, WithinPairs(xn.v))
            /\ out.val.phiy.sign < 0 /\ out.val.phiy.over = <<ny, ny - 1>>
            /\ SameBag(out.val.phiy.logs, WithinPairs(yn.v))
            /\ out.val.phixy.sign > 0 /\ out.val.phixy.over = <<nx, ny>>
            /\ Len(out.val.phixy.logs) = nx * ny
            /\ SameBag(out.val.phixy.logs, CrossPairs(xn.v, yn.v))

C26_Witness ==
    /\ fn = "zech_aslan" /\ pc = "return"
    /\ shape(xn) = <<4, 9>> /\ shape(yn) = <<3, 9>>
    /\ xn.v[1] = xn.v[4]
    /\ Len(out.val.phix.logs) = 6 /\ Len(out.val.phiy.logs) = 3
    /\ Len(out.val.phixy.logs) = 12
    /\ out.val.phixy.logs[5] = SqDiffs(yn.v[2], xn.v[1])

\* C27 as stated: for samples X of shape (n, d) and Y of shape (m, d), n >= 1,
\* m >= 1, check_sample_shape succeeds and returns arrays of shapes (n, d) and
\* (m, d), also when n = 1 or m = 1 with d > 1.
C27_AsStated ==
    (fn = "check_sample_shape" /\ Ended /\ x.ndim = 2 /\ y.ndim = 2
        /\ shape(x)[2] = shape(y)[2])
    => /\ out.kind = "return"
       /\ shape(out.val.x) = shape(x)
       /\ shape(out.val.y) = shape(y)

\* C28: check_sample_shape applied to the pair it returned returns that same
\* pair: the second call raises nothing and transposes nothing.  The same
\* holds of the operands every metric works on.
C28_Idempotent ==
    /\ (fn = "check_sample_shape" /\ pc = "return")
          => check_sample_shape(out.val.x, out.val.y) = out
    /\ pc \in {"normalized", "return"}
          => check_sample_shape(xn, yn) = Return("pair", [x |-> xn, y |-> yn])

C28_Witness ==
    /\ fn = "check_sample_shape" /\ pc = "return"
    /\ x.ndim = 2 /\ shape(x) = <<1, 9>> /\ y.ndim = 1 /\ Len(y.e) = 3
    /\ shape(out.val.x) = <<9, 1>> /\ shape(out.val.y) = <<3, 1>>
    /\ check_sample_shape(out.val.x, out.val.y).val.x = out.val.x

---------------------------------------------------------------------------
(* Properties of the calls taken statement by statement (SpecQuery).       *)

\* the call issued both queries of kldiv
Queried == fn = "kldiv" /\ pc \in {"s", "loop", "return"}

\* the 0-based column `col` of what query number `qn` returned for point i
ColumnRead(qn, i, col) == queries[qn].res[i].d[col + 1]

\* C21: for each point x_i of X and each requested k >= 1 for which X has k
\* points other than x_i and Y has k points, the estimate of kldiv reads r at
\* the 0-based column k of what the X-index query returned and s at column
\* k - 1 of what the Y-index query returned; the first is the distance from
\* x_i to its k-th nearest point of X other than x_i, the second the distance
\* to its k-th nearest point of Y.
C21_ColumnsRead ==
    (fn = "kldiv" /\ pc = "loop") =>
        \A t \in 1..Len(D_list) : \A i \in 1..shape(xn)[1] :
            LET kt == atleast_1d(k)[t]
            IN  /\ Len(D_list[t].logratio) = shape(xn)[1]
                /\ D_list[t].logratio[i][1] = ColumnRead(1, i, kt)
                /\ D_list[t].logratio[i][2] = ColumnRead(2, i, kt - 1)
                /\ queries[1].tree = "xtree" /\ queries[2].tree = "ytree"
                /\ (kt <= shape(xn)[1] - 1 /\ kt <= shape(yn)[1])
                      => /\ ColumnRead(1, i, kt) = r_k(i, kt)
                         /\ ColumnRead(2, i, kt - 1) = s_k(i, kt)

C21_Witness ==
    /\ fn = "kldiv" /\ pc = "loop" /\ k = [ndim |-> 1, e |-> <<3, 1>>]
    /\ shape(xn) = <<6, 9>> /\ shape(yn) = <<5, 9>>
    /\ Len(D_list) = 2
    /\ xn.v[1] = xn.v[4]
    /\ D_list[1].logratio[1] = <<r_k(1, 3), s_k(1, 3)>>
    /\ r_k(1, 3) > 0

\* a query of an index with the points the index was built from: the query
\* of xtree in kldiv, the query of tree in nearest_neighbor
SelfQueries == {qn \in 1..Len(queries) : queries[qn].tree \in {"xtree", "tree"}}

\* whether a distance a query returned is zero (a distance between
\* standardized points is kept as its squared differences per feature)
IsZero(d) == IF fn = "kldiv" THEN d = 0 ELSE \A j \in 1..Len(d) : d[j] = 0

\* C22 as stated: in every self-query (xtree queried with the points of X in
\* kldiv, the pooled index queried with the pooled points in nearest_neighbor)
\* the neighbour returned at position 0 for a query point is that point itself,
\* at distance 0.
C22_AsStated ==
    \A qn \in SelfQueries : \A q \in 1..Len(queries[qn].res) :
        /\ queries[qn].res[q].i[1] = q - 1
        /\ IsZero(queries[qn].res[q].d[1])

\* C23: one call of kldiv builds one index over X and one over Y and issues
\* one query against each, both with the points of X and both of size
\* max(k) + 1 (one column per neighbour asked for), however many k are
\* requested: once both queries are issued, the indexes built and the queries
\* issued stay these two through every turn of the loop and to the return, and
\* a call that ends before the queries builds and queries nothing.
C23_OneQueryEach ==
    fn = "kldiv" =>
        /\ Len(built) <= 2 /\ Len(queries) <= 2
        /\ Len(queries) > 0 =>
              built = <<[name |-> "xtree", data |-> xn.v],
                        [name |-> "ytree", data |-> yn.v]>>
        /\ \A qn \in 1..Len(queries) :
              /\ queries[qn].tree = <<"xtree", "ytree">>[qn]
              /\ queries[qn].pts = xn.v
              /\ queries[qn].K = MaxSeq(atleast_1d(k)) + 1
              /\ \A i \in 1..Len(queries[qn].res) :
                    Len(queries[qn].res[i].d) = MaxSeq(atleast_1d(k)) + 1
        /\ pc \in {"s", "loop"} => Len(queries) = 2
        /\ pc = "return" => Len(queries) \in {0, 2} /\ Len(built) = Len(queries)

C23_Witness ==
    /\ fn = "kldiv" /\ pc = "return" /\ k = [ndim |-> 1, e |-> <<1, 2, 3>>]
    /\ Len(built) = 2 /\ Len(queries) = 2
    /\ queries[1].K = 4 /\ queries[2].K = 4
    /\ Len(out.val) = 3

KInRange ==
    \A t \in 1..Len(atleast_1d(k)) :
        /\ 1 <= atleast_1d(k)[t]
        /\ atleast_1d(k)[t] <= shape(xn)[1] - 1
        /\ atleast_1d(k)[t] <= shape(yn)[1]

\* C30: whenever kldiv has issued its queries, n >= 5 and m >= 5; and if every
\* requested k satisfies 1 <= k <= min(n - 1, m), then column k of the X query
\* and column k - 1 of the Y query are among the max(k) + 1 columns returned
\* and each holds the distance to a point of the sample (no missing
\* neighbour); for the scalar k = 1 the query size is 2 <= min(n, m) and the
\* divisor n - 1 is at least 4.
C30_ColumnsExist ==
    (fn = "kldiv" /\ Len(queries) = 2) =>
        LET n == shape(xn)[1]
            m == shape(yn)[1]
            ka == atleast_1d(k)
        IN  /\ n >= 5 /\ m >= 5
            /\ KInRange =>
                  \A t \in 1..Len(ka) : \A i \in 1..n :
                      /\ 0 <= ka[t] - 1 /\ ka[t] <= queries[1].K - 1
                      /\ Len(queries[1].res[i].d) = queries[1].K
                      /\ Len(queries[2].res[i].d) = queries[2].K
                      /\ ColumnRead(1, i, ka[t]) # inf
                      /\ queries[1].res[i].i[ka[t] + 1] \in 0..(n - 1)
                      /\ ColumnRead(2, i, ka[t] - 1) # inf
                      /\ queries[2].res[i].i[ka[t]] \in 0..(m - 1)
            /\ k = DefaultK =>
                  /\ queries[1].K = 2 /\ queries[2].K = 2
                  /\ 2 <= n /\ 2 <= m
                  /\ n - 1 >= 4
            /\ pc = "return" =>
                  \A t \in 1..Len(ka) :
                      /\ Estimates(out)[t].over = n
                      /\ Estimates(out)[t].logconst = <<m, n - 1>>
                      /\ KInRange => \A i \in 1..n :
                             /\ Estimates(out)[t].logratio[i][1] # inf
                             /\ Estimates(out)[t].logratio[i][2] # inf

C30_Witness ==
    /\ fn = "kldiv" /\ pc = "return" /\ k = [ndim |-> 0, s |-> 4]
    /\ shape(xn) = <<5, 1>> /\ shape(yn) = <<5, 1>>
    /\ KInRange
    /\ queries[1].K = 5
    /\ queries[1].res[1].i[5] = 4
    /\ out.val.logratio[1][1] = ColumnRead(1, 1, 4)

---------------------------------------------------------------------------
(* Properties of a session of calls (SpecSession).                         *)

\* the calls of the session that have ended, the current one included
EndedCalls ==
    [j \in 1..(Len(hist) + IF pc \in {"return", "raise"} THEN 1 ELSE 0) |->
        IF j <= Len(hist) THEN hist[j]
        ELSE [fn |-> fn, x |-> x, y |-> y, k |-> k, out |-> out]]

---------------------------------------------------------------------------
(* Properties of Dissimilarity.calculate (specification SpecCalc).         *)

\* what the dispatcher is to leave in the cell of pos: NaN with fewer than 5
\* valid rows, else the value of dd.<algo>(reference, compressed candidate)
Expected(pos) ==
    IF nrows(compress(field, pos)) < 5
    THEN NaN
    ELSE apply(algo, MkRef(reference), compress(field, pos)).val

\* C2 as stated: when the loop of ocgisDissimilarity's calculate is over, a cell
\* holds NaN exactly where the compressed candidate has fewer than 5 valid rows,
\* and the metric's value wherever it has 5 or more.
C2_AsStated ==
    (impl = "ocgis" /\ cpc = "done") => \A pos \in Grid : fill[pos] = Expected(pos)

\* C3 as stated: when wps_spatial_analog's calculate is over, every cell whose
\* compressed candidate has at least 5 valid rows holds the metric's value, and
\* only the cells with fewer hold NaN.
C3_AsStated ==
    (impl = "wps" /\ cpc = "done") => \A pos \in Grid : fill[pos] = Expected(pos)

\* C4 as stated: calculate accepts each of the five metric names and binds
\* `metric` to the function of that name.
C4_AsStated ==
    (algo \in Metrics /\ cpc # "start") => metric = algo

ValidTimes(pos) ==
    {t \in 1..NTime :
        \A j \in 1..Len(candidate) : field[candidate[j]][t][pos] \notin {nan, inf}}

\* the r-th of them in time order
NthValid(pos, r) ==
    CHOOSE t \in ValidTimes(pos) : Cardinality({u \in ValidTimes(pos) : u <= t}) = r

\* C11: the compressed candidate of the position just processed has one row
\* per time at which every candidate variable is valid, and no other row: its
\* r-th row holds the values of the r-th such time, so a time with an invalid
\* value in any variable is dropped whole and the time order is kept.
C11_CompressedRows ==
    (cpc \in {"loop", "done"} /\ itr >= 1)
    => LET pos == ItemPos(impl, order[itr])
       IN  /\ Len(pcomp.v) = Cardinality(ValidTimes(pos))
           /\ \A r \in 1..Len(pcomp.v) :
                  pcomp.v[r] = [j \in 1..Len(candidate) |->
                                   field[candidate[j]][NthValid(pos, r)][pos]]

C11_Witness ==
    /\ impl = "ocgis" /\ cpc = "loop" /\ itr >= 1
    /\ field["meantemp"][1][order[itr]] = nan
    /\ field["totalpr"][2][order[itr]] = inf
    /\ Len(pcomp.v) = NTime - 3

---------------------------------------------------------------------------
(* Properties of the loop taken in any order (specification SpecAnyOrder). *)

\* the output array before the loop: line 55 (ocgis), line 62 (wps)
InitialFill(im) == IF im = "ocgis" THEN [pos \in Grid |-> None] ELSE [pos \in Grid |-> zero]

\* the loop run over the items in the given order, from the array f
RECURSIVE Loop(_, _, _)
Loop(im, f, items) ==
    IF items = <<>> THEN f
    ELSE Loop(im,
              IF im = "ocgis"
              THEN ocgis_cell(field, MkRef(reference), algo, f, Head(items))
              ELSE wps_cell(field, f, Head(items)[2]),
              Tail(items))

\* the array the sequential loop ends with
Sequential == Loop(impl, InitialFill(impl), iter_array(impl))

---------------------------------------------------------------------------
(* Properties of the evaluated metrics (specification SpecValue).          *)

\* a sample as the (n, d) array the data model means: a vector of length n is
\* n points of one feature, an (n, d) array is n points whatever n
Canon(a) ==
    IF a.ndim = 1 THEN [ndim |-> 2, v |-> [i \in 1..Len(a.e) |-> <<a.e[i]>>]] ELSE a

\* the points of x then of y
Pooled(xx, yy) == Canon(xx).v \o Canon(yy).v

\* the weights the distances of the pooled sample are compared with: those of
\* standardize where they are finite, else none
Weights(xx, yy) ==
    IF FiniteScale(Canon(xx), Canon(yy)) THEN scale4(Canon(xx), Canon(yy))
    ELSE [j \in 1..shape(Canon(xx))[2] |-> 1]

\* the points other than q that are nearest to q (several when distances tie)
NearestOthers(pts, w, q) ==
    LET others == (1..Len(pts)) \ {q}
    IN  {i \in others :
            \A j \in others : StdCompare(pts[i], pts[q], pts[j], pts[q], w) <= 0}

\* the points of the pooled sample all of whose nearest other points (resp.
\* one of whose nearest other points) are of the point's own sample
SameForSure(xx, yy) ==
    LET pts == Pooled(xx, yy)
        nx == shape(Canon(xx))[1]
    IN  {q \in 1..Len(pts) :
            \A i \in NearestOthers(pts, Weights(xx, yy), q) : (i <= nx) = (q <= nx)}

SameMaybe(xx, yy) ==
    LET pts == Pooled(xx, yy)
        nx == shape(Canon(xx))[1]
    IN  {q \in 1..Len(pts) :
            \E i \in NearestOthers(pts, Weights(xx, yy), q) : (i <= nx) = (q <= nx)}

\* C14 as stated: for every pair of samples of equal feature count,
\* nearest_neighbor returns count / (n + m) where count is the number of pooled
\* points whose nearest other point is of the point's own sample (each tie
\* between nearest points read either way); the value lies in [0, 1].
C14_AsStated ==
    (fn = "nearest_neighbor" /\ Ended
        /\ shape(Canon(x))[2] = shape(Canon(y))[2])
    => /\ out.kind = "return"
       /\ out.val.den = Len(Pooled(x, y))
       /\ Cardinality(SameForSure(x, y)) <= out.val.num
       /\ out.val.num <= Cardinality(SameMaybe(x, y))
       /\ 0 <= out.val.num /\ out.val.num <= out.val.den

\* the numbers of edges joining a point of x to a point of y in the minimum
\* spanning trees of pts under the distances weighted by w, each tree grown
\* from the points in `inn`
RECURSIVE CrossEdges(_, _, _, _, _)
CrossEdges(pts, w, nx, inn, c) ==
    IF inn = 1..Len(pts) THEN {c}
    ELSE LET E == {e \in inn \X ((1..Len(pts)) \ inn) : TRUE}
             shortest == {e \in E : \A e2 \in E :
                             StdCompare(pts[e[1]], pts[e[2]], pts[e2[1]], pts[e2[2]], w) <= 0}
         IN  UNION {CrossEdges(pts, w, nx, inn \cup {e[2]},
                               c + IF (e[1] <= nx) # (e[2] <= nx) THEN 1 ELSE 0)
                      : e \in shortest}

\* C15 as stated: for every pair of samples of equal feature count,
\* friedman_rafsky returns 1 - (1 + c)/(n + m), c being the number of edges
\* that join a point of x to a point of y in a minimum spanning tree of the
\* pooled, standardized sample.
C15_AsStated ==
    (fn = "friedman_rafsky" /\ Ended
        /\ shape(Canon(x))[2] = shape(Canon(y))[2])
    => /\ out.kind = "return"
       /\ \E c \in CrossEdges(Pooled(x, y), Weights(x, y), shape(Canon(x))[1], {1}, 0) :
              out.val.num * Len(Pooled(x, y))
                  = (Len(Pooled(x, y)) - 1 - c) * out.val.den

\* C16 as stated: for every pair of non-empty samples of n and m rows (and
\* equal feature count), friedman_rafsky returns a value v with
\* 0 <= v <= (n + m - 1)/(n + m).
C16_AsStated ==
    (fn = "friedman_rafsky" /\ Ended
        /\ shape(Canon(x))[2] = shape(Canon(y))[2])
    => LET nm == shape(Canon(x))[1] + shape(Canon(y))[1]
       IN  /\ out.kind = "return"
           /\ 0 <= out.val.num
           /\ out.val.num * nm <= (nm - 1) * out.val.den

\* per feature, the mean of a sample in lowest terms
MeanOf(a) == [j \in 1..shape(a)[2] |-> Frac(mean0(a)[j][1], mean0(a)[j][2])]

\* per feature, the variance (ddof = 1) of a sample in lowest terms; that of
\* a single row is undefined
VarOf(a) ==
    [j \in 1..shape(a)[2] |->
        IF var0(a)[j][2] = 0 THEN <<0, 0>> ELSE Frac(var0(a)[j][1], var0(a)[j][2])]

\* C17 as stated: the outcome of seuclidean(x, y) is that of seuclidean(x, y2)
\* for every candidate y2 with the per-feature means of y, and that of
\* seuclidean(x2, y) for every reference x2 with the per-feature means and
\* variances of x; a returned value is the distance of the means scaled by
\* the variance of x, and it is not negative.
C17_AsStated ==
    (fn = "seuclidean" /\ Ended)
    => /\ \A y2 \in SmallSamples :
              MeanOf(Canon(y2)) = MeanOf(Canon(y)) => outcomes(fn, x, y2) = {out}
       /\ \A x2 \in SmallSamples :
              (MeanOf(Canon(x2)) = MeanOf(Canon(x)) /\ VarOf(Canon(x2)) = VarOf(Canon(x)))
              => outcomes(fn, x2, y) = {out}
       /\ out.kind = "return"
              => /\ out = seuclidean_value(Canon(x), Canon(y))
                 /\ out.val \in {NaN, PlusInf} \/ out.val.sqrt[1] >= 0

\* whether the points of a sequence are pairwise distinct
PairwiseDistinct(pts) == \A i, j \in 1..Len(pts) : pts[i] = pts[j] => i = j

\* C29: when the pooled points of friedman_rafsky (n of x, m of y, n >= 1,
\* m >= 1) are pairwise distinct, its spanning tree has n + m - 1 edges, at
\* least one of them between a point of x and a point of y, and the value
\* returned is at most (n + m - 2)/(n + m): (n + m - 1)/(n + m) is not
\* attained.
C29_BelowLimit ==
    (fn = "friedman_rafsky" /\ pc = "return" /\ PairwiseDistinct(xn.v \o yn.v))
    => LET nm == shape(xn)[1] + shape(yn)[1]
       IN  /\ mst_edges(xn.v \o yn.v, {1}, 0) = {nm - 1}
           /\ \A diff \in mst_diffs(xn.v \o yn.v, shape(xn)[1], {1}, 0) : diff >= 1
           /\ out.val.num * nm <= (nm - 2) * out.val.den
           /\ out.val.num * nm # (nm - 1) * out.val.den

C29_Witness ==
    /\ fn = "friedman_rafsky" /\ pc = "return"
    /\ xn.v = << <<0>>, <<1>> >> /\ yn.v = << <<5>> >>
    /\ out.val = [num |-> 1, den |-> 3]

---------------------------------------------------------------------------
(* Properties of DSProcess.execute (specification SpecDS).                 *)

\* C19: run with vec_p, vec_q and no algo (or algo = 'kldiv'), the process
\* sets its output to the value of kldiv(p, q) with k = 1 on the vectors of
\* the two files, and ends; with any other algo it ends in an error and its
\* output is never set.
C19_OutputIsKldiv ==
    /\ (req_algo \in {"absent", "kldiv"} /\ dpc \in {"set", "done"})
          => output = kldiv([ndim |-> 1, e |-> vec_p], [ndim |-> 1, e |-> vec_q],
                            [ndim |-> 0, s |-> 1]).val
    /\ (req_algo \in {"absent", "kldiv"}) => dpc # "raised"
    /\ (req_algo \notin {"absent", "kldiv"})
          => /\ output = None
             /\ dpc \in {"start", "read", "raised"}
             /\ dpc = "raised" => derr.exc = "ValueError"

C19_Witness ==
    /\ req_algo = "absent" /\ dpc = "done"
    /\ Len(vec_p) = 5 /\ Len(vec_q) = 6
    /\ output # NaN
    /\ output.logconst = <<6, 4>>

=============================================================================
